---- MODULE Spec2Model ----
(***************************************************************************)
(* Model of the OllyStack stream processor (src/stream-processor/src):     *)
(* the StreamEngine consume loop (engine.rs), the analytics components     *)
(* (analytics/mod.rs), the storage and alert sinks (sinks/mod.rs) and the  *)
(* two tokio channels that connect them.                                   *)
(*                                                                         *)
(* Scaling.  TLC integers are 32 bit and the channels of the program hold  *)
(* thousands of entries, so sizes and time values are scaled down:         *)
(*   DataChannelCapacity  stands for mpsc::channel(10000)                  *)
(*   AlertChannelCapacity stands for broadcast::channel(1000)              *)
(*   LatencyThreshold     stands for 1_000_000_000.0 (ns)                  *)
(*   WindowMillis         stands for window_seconds * 1000                 *)
(*   NanosPerMilli        stands for 1_000_000                             *)
(*   U64Modulus           stands for 2^64                                  *)
(* Comparisons are kept exactly as the code writes them.                   *)
(*                                                                         *)
(* External I/O.  StorageSink::write_* and AlertSink::send_webhook /       *)
(* send_slack are placeholders for calls to a storage backend and to HTTP  *)
(* endpoints; they return Result<()>.  Their outcome is an input of the    *)
(* model drawn from IoOutcomes; what the callers do with an Err is taken   *)
(* from the code (the ? operators).                                        *)
(***************************************************************************)
EXTENDS Integers, Sequences, FiniteSets, TLC

----------------------------------------------------------------------------
(* Bounds of the model *)

\* number of batches the producer submits in one run
MaxBatches == 3

\* scaled capacity of the ingestion queue, engine.rs:100 mpsc::channel(10000)
DataChannelCapacity == 2

\* scaled capacity of the alert fan-out, engine.rs:101 broadcast::channel(1000)
AlertChannelCapacity == 1

\* largest wall-clock reading (ms) the model lets chrono::Utc::now() return
MaxNow == 2

\* longest span batch handed to check_traces on its own
MaxSpans == 10

\* longest metric batch handed to check_metrics on its own
MaxMetrics == 3

\* largest wall-clock reading (ms) when the analytics stores are driven
\* directly
MaxClock == 5

\* number of direct calls of TraceCorrelator::process or
\* TopologyDiscovery::process in one run
MaxCalls == 2

\* longest operator chain built with OperatorChain::add
MaxChainLen == 3

----------------------------------------------------------------------------
(* Program constants (scaled, see the header) *)

\* analytics/mod.rs:53  avg_latency > 1_000_000_000.0
LatencyThreshold == 10

\* config.rs:59 default_window() = 300 s, times 1000 in analytics/mod.rs:122
WindowMillis == 2

\* nanoseconds per millisecond (1_000_000 in the program, analytics/mod.rs:57):
\* span times are nanoseconds (analytics/mod.rs:53), the clock is read in
\* milliseconds (analytics/mod.rs:121)
NanosPerMilli == 2

\* scaled 2^64: the range of the u64 accumulator total_latency_ns
\* (analytics/mod.rs:146)
U64Modulus == 64

----------------------------------------------------------------------------
(* Data model: engine.rs:14-65 *)

NoPeer == "none"

\* engine.rs:22-32 Span (span_id, parent_span_id, operation_name are never read)
MkSpan(tid, svc, st, en, status, peer) ==
    [trace_id |-> tid, service_name |-> svc, start_time |-> st,
     end_time |-> en, status |-> status, peer |-> peer]

SpanOk   == MkSpan("t1", "a", 0, 1, "Ok", "b")
SpanErr  == MkSpan("t1", "a", 1, 2, "Error", "b")
SpanSlow == MkSpan("t2", "b", 0, 12, "Ok", NoPeer)

\* engine.rs:41-47 Metric
MkMetric(name, value) == [name |-> name, value |-> value]

\* engine.rs:15-19 TelemetryData: the payloads a producer may submit
Payloads ==
    { [kind |-> "Traces",  items |-> <<SpanErr, SpanOk>>],
      [kind |-> "Traces",  items |-> <<SpanSlow>>],
      [kind |-> "Traces",  items |-> <<SpanOk>>],
      [kind |-> "Traces",  items |-> <<>>],
      [kind |-> "Metrics", items |-> <<MkMetric("cpu", 95)>>],
      [kind |-> "Metrics", items |-> <<>>],
      [kind |-> "Logs",    items |-> <<>>] }

NoBatch == [id |-> 0, kind |-> "None", items |-> <<>>]
NoAlert == [name |-> "None", severity |-> "None"]

\* engine.rs:82-89 Alert (id is a fresh uuid, timestamp the wall clock)
MkAlert(name, severity) == [name |-> name, severity |-> severity]

----------------------------------------------------------------------------
(* Pure helpers *)

RECURSIVE SumSeq(_)
SumSeq(s) == IF s = <<>> THEN 0 ELSE Head(s) + SumSeq(Tail(s))

\* analytics/mod.rs:32 matches!(s.status, SpanStatus::Error(_))
IsError(s) == s.status = "Error"

\* analytics/mod.rs:31-33 spans.iter().filter(..).count()
ErrorCount(spans) == Cardinality({i \in DOMAIN spans : IsError(spans[i])})

\* faulty variant of check_traces: the latency rule evaluated before the
\* error-rate rule
check_tracesLatencyFirst(spans) ==
    LET n           == Len(spans)
        error_count == ErrorCount(spans)
        total       == SumSeq([i \in DOMAIN spans |->
                                  spans[i].end_time - spans[i].start_time])
    IN  IF n > 0 /\ total > LatencyThreshold * n
          THEN MkAlert("High Latency", "Warning")
        ELSE IF n > 0 /\ 10 * error_count > n
          THEN MkAlert("High Error Rate", "Critical")
        ELSE NoAlert

\* faulty variant of check_traces: the mean latency computed by integer
\* division
check_tracesTruncatedMean(spans) ==
    LET n           == Len(spans)
        error_count == ErrorCount(spans)
        total       == SumSeq([i \in DOMAIN spans |->
                                  spans[i].end_time - spans[i].start_time])
    IN  IF n > 0 /\ 10 * error_count > n
          THEN MkAlert("High Error Rate", "Critical")
        ELSE IF n > 0 /\ (total \div n) > LatencyThreshold
          THEN MkAlert("High Latency", "Warning")
        ELSE NoAlert

\* faulty variant of check_traces: the quotients of the empty batch (0.0 / 0.0)
\* taken as a signal above the thresholds
check_tracesEmptySignals(spans) ==
    LET n           == Len(spans)
        error_count == ErrorCount(spans)
        total       == SumSeq([i \in DOMAIN spans |->
                                  spans[i].end_time - spans[i].start_time])
    IN  IF n = 0 \/ 10 * error_count > n
          THEN MkAlert("High Error Rate", "Critical")
        ELSE IF total > LatencyThreshold * n
          THEN MkAlert("High Latency", "Warning")
        ELSE NoAlert

\* faulty variant of check_traces: both thresholds inclusive (>=)
check_tracesInclusive(spans) ==
    LET n           == Len(spans)
        error_count == ErrorCount(spans)
        total       == SumSeq([i \in DOMAIN spans |->
                                  spans[i].end_time - spans[i].start_time])
    IN  IF n > 0 /\ 10 * error_count >= n
          THEN MkAlert("High Error Rate", "Critical")
        ELSE IF n > 0 /\ total >= LatencyThreshold * n
          THEN MkAlert("High Latency", "Warning")
        ELSE NoAlert

\* analytics/mod.rs:29-65 AnomalyDetector::check_traces.
\* error_count as f64 / len as f64 > 0.1: for an empty batch 0.0/0.0 is NaN
\* and every comparison with NaN is false; otherwise the quotient exceeds
\* 0.1 exactly when 10 * error_count > len.
check_traces(spans) ==
    LET n           == Len(spans)
        error_count == ErrorCount(spans)
        total       == SumSeq([i \in DOMAIN spans |->
                                  spans[i].end_time - spans[i].start_time])
    IN  IF n > 0 /\ 10 * error_count > n
          THEN MkAlert("High Error Rate", "Critical")
        ELSE IF n > 0 /\ total > LatencyThreshold * n
          THEN MkAlert("High Latency", "Warning")
        ELSE NoAlert

Abs(x) == IF x < 0 THEN -x ELSE x

\* f64 comparison z_score.abs() > 3.0 with z = (value - mean) / std_dev:
\* std_dev = 0 gives +-inf (alert) unless value = mean (NaN, no alert)
ZScoreExceeds(value, mean, std_dev) ==
    IF std_dev = 0 THEN value # mean
    ELSE Abs(value - mean) > 3 * Abs(std_dev)

\* faulty variant of check_metrics: the scan keeps going and the last
\* offending metric wins
RECURSIVE check_metricsLast(_, _)
check_metricsLast(metrics, baselines) ==
    IF metrics = <<>> THEN NoAlert
    ELSE LET m    == Head(metrics)
             rest == check_metricsLast(Tail(metrics), baselines)
         IN  IF rest # NoAlert THEN rest
             ELSE IF m.name \in DOMAIN baselines
                     /\ ZScoreExceeds(m.value, baselines[m.name].mean,
                                      baselines[m.name].std_dev)
               THEN MkAlert("Anomaly in " \o m.name, "Warning")
             ELSE NoAlert

\* analytics/mod.rs:67-89 AnomalyDetector::check_metrics
RECURSIVE check_metrics(_, _)
check_metrics(metrics, baselines) ==
    IF metrics = <<>> THEN NoAlert
    ELSE LET m == Head(metrics)
         IN  IF m.name \in DOMAIN baselines
                /\ ZScoreExceeds(m.value, baselines[m.name].mean,
                                 baselines[m.name].std_dev)
               THEN MkAlert("Anomaly in " \o m.name, "Warning")
             ELSE check_metrics(Tail(metrics), baselines)

----------------------------------------------------------------------------
(* Trace window store: analytics/mod.rs:93-132 *)

\* faulty variant of AppendSpans: the span put in front of its trace's entry
RECURSIVE AppendSpansFront(_, _)
AppendSpansFront(store, spans) ==
    IF spans = <<>> THEN store
    ELSE LET s   == Head(spans)
             old == IF s.trace_id \in DOMAIN store
                      THEN store[s.trace_id] ELSE <<>>
             new == [t \in DOMAIN store \cup {s.trace_id} |->
                       IF t = s.trace_id THEN <<s>> \o old ELSE store[t]]
         IN  AppendSpansFront(new, Tail(spans))

RECURSIVE AppendSpans(_, _)
\* analytics/mod.rs:107-112  entry(trace_id).or_insert_with(Vec::new).push(span)
AppendSpans(store, spans) ==
    IF spans = <<>> THEN store
    ELSE LET s   == Head(spans)
             old == IF s.trace_id \in DOMAIN store
                      THEN store[s.trace_id] ELSE <<>>
             new == [t \in DOMAIN store \cup {s.trace_id} |->
                       IF t = s.trace_id THEN Append(old, s) ELSE store[t]]
         IN  AppendSpans(new, Tail(spans))

\* analytics/mod.rs:120-127  retain entries with a span whose end_time > cutoff
cleanup_old_traces(store, clock) ==
    LET cutoff == clock - WindowMillis
        keep   == {t \in DOMAIN store :
                     \E i \in DOMAIN store[t] : store[t][i].end_time > cutoff}
    IN  [t \in keep |-> store[t]]

\* faulty variant of TraceCorrelator_process: the sweep run before the spans
\* are appended
TraceCorrelator_processSweepFirst(store, spans, clock) ==
    AppendSpans(cleanup_old_traces(store, clock), spans)

\* analytics/mod.rs:106-118 TraceCorrelator::process
TraceCorrelator_process(store, spans, clock) ==
    cleanup_old_traces(AppendSpans(store, spans), clock)

\* analytics/mod.rs:129-131 TraceCorrelator::get_trace (<<>> stands for None:
\* an entry always holds at least one span)
get_trace(store, tid) == IF tid \in DOMAIN store THEN store[tid] ELSE <<>>

----------------------------------------------------------------------------
(* Topology graph store: analytics/mod.rs:135-214 *)

\* analytics/mod.rs:187  format!("{}:{}", span.service_name, peer_service)
edge_key(s) == s.service_name \o ":" \o s.peer

NewService(s) == [name |-> s.service_name, span_count |-> 0,
                  error_count |-> 0, total_latency_ns |-> 0]

NewEdge(s) == [source |-> s.service_name, target |-> s.peer,
               request_count |-> 0, error_count |-> 0]

\* analytics/mod.rs:179  (span.end_time - span.start_time) as u64: the cast of
\* a negative i64 gives its two's complement
AsU64(d) == d % U64Modulus

\* faulty variant of UpdateService: the latency of the span overwrites the
\* accumulator
UpdateServiceOverwrite(svcs, s) ==
    LET old == IF s.service_name \in DOMAIN svcs
                 THEN svcs[s.service_name] ELSE NewService(s)
        upd == [old EXCEPT
                  !.span_count = @ + 1,
                  !.total_latency_ns = AsU64(s.end_time - s.start_time),
                  !.error_count = IF IsError(s) THEN @ + 1 ELSE @]
    IN  [n \in DOMAIN svcs \cup {s.service_name} |->
           IF n = s.service_name THEN upd ELSE svcs[n]]

\* analytics/mod.rs:169-183; the += of line 179 on a u64, shown here as it
\* wraps (overflow checks off); span_count and error_count grow by one per
\* span and cannot reach 2^64
UpdateService(svcs, s) ==
    LET old == IF s.service_name \in DOMAIN svcs
                 THEN svcs[s.service_name] ELSE NewService(s)
        upd == [old EXCEPT
                  !.span_count = @ + 1,
                  !.total_latency_ns =
                     (@ + AsU64(s.end_time - s.start_time)) % U64Modulus,
                  !.error_count = IF IsError(s) THEN @ + 1 ELSE @]
    IN  [n \in DOMAIN svcs \cup {s.service_name} |->
           IF n = s.service_name THEN upd ELSE svcs[n]]

\* analytics/mod.rs:179 the += leaves the range of u64
AddOverflows(svcs, s) ==
    LET old == IF s.service_name \in DOMAIN svcs
                 THEN svcs[s.service_name] ELSE NewService(s)
    IN  old.total_latency_ns + AsU64(s.end_time - s.start_time) >= U64Modulus

\* analytics/mod.rs:186-201
UpdateEdge(eds, s) ==
    IF s.peer = NoPeer THEN eds
    ELSE LET k   == edge_key(s)
             old == IF k \in DOMAIN eds THEN eds[k] ELSE NewEdge(s)
             upd == [old EXCEPT
                       !.request_count = @ + 1,
                       !.error_count = IF IsError(s) THEN @ + 1 ELSE @]
         IN  [e \in DOMAIN eds \cup {k} |-> IF e = k THEN upd ELSE eds[e]]

RECURSIVE TopologyDiscovery_process(_, _)
\* analytics/mod.rs:166-205 TopologyDiscovery::process on <<services, edges>>
TopologyDiscovery_process(topo, spans) ==
    IF spans = <<>> THEN topo
    ELSE TopologyDiscovery_process(
           <<UpdateService(topo[1], Head(spans)), UpdateEdge(topo[2], Head(spans))>>,
           Tail(spans))

RECURSIVE TopologyOverflows(_, _)
\* some += of the call leaves the range of u64
TopologyOverflows(topo, spans) ==
    IF spans = <<>> THEN FALSE
    ELSE \/ AddOverflows(topo[1], Head(spans))
         \/ TopologyOverflows(
              <<UpdateService(topo[1], Head(spans)), UpdateEdge(topo[2], Head(spans))>>,
              Tail(spans))

\* what an arithmetic overflow does: it wraps in a build without overflow
\* checks (the release profile) and panics in a build with them (the debug
\* profile)
OverflowOutcomes(overflows) == IF overflows THEN {"wrap", "panic"} ELSE {"none"}

EmptyMap == [x \in {} |-> 0]

----------------------------------------------------------------------------
(* Stream operators: operators/mod.rs *)

\* operators/mod.rs:43-45 FilterOperator; the predicate keeps the batches
\* whose kind is in keep
MkFilter(keep) == [kind |-> "filter", keep |-> keep]
\* operators/mod.rs:69-71 EnrichOperator
MkEnrich == [kind |-> "enrich"]
\* operators/mod.rs:88-96 SampleOperator::new(rate), rate = num / den
MkSample(num, den) == [kind |-> "sample", rate |-> <<num, den>>, counter |-> 0]
\* operators/mod.rs:113-131 AggregateOperator::new
MkAggregate == [kind |-> "aggregate", aggregations |-> EmptyMap]
\* operators/mod.rs:7-9 an implementation of Operator whose process returns Err
MkFailing == [kind |-> "failing"]

Min2(a, b) == IF a < b THEN a ELSE b
Max2(a, b) == IF a > b THEN a ELSE b

RECURSIVE Aggregate(_, _)
\* operators/mod.rs:137-151 the aggregation of each metric under its name
\* (min and max start at f64::MAX and f64::MIN)
Aggregate(aggs, metrics) ==
    IF metrics = <<>> THEN aggs
    ELSE LET m   == Head(metrics)
             upd == IF m.name \in DOMAIN aggs
                      THEN [sum   |-> aggs[m.name].sum + m.value,
                            count |-> aggs[m.name].count + 1,
                            min   |-> Min2(aggs[m.name].min, m.value),
                            max   |-> Max2(aggs[m.name].max, m.value)]
                      ELSE [sum |-> m.value, count |-> 1,
                            min |-> m.value, max |-> m.value]
         IN  Aggregate([n \in DOMAIN aggs \cup {m.name} |->
                          IF n = m.name THEN upd ELSE aggs[n]],
                       Tail(metrics))

\* operators/mod.rs:102 (1.0 / self.rate) as u64, for a rate in (0, 1]
SampleThreshold(rate) == rate[2] \div rate[1]

\* the result of one Operator::process call: the operator afterwards, the
\* variant of Result<Option<TelemetryData>> and the data of a Some
Returned(op, result, data) == [op |-> op, result |-> result, data |-> data]

\* operators/mod.rs:58-66, 79-85, 99-110, 134-156 Operator::process of each
\* operator on the batch d
Operator_process(op, d) ==
    CASE op.kind = "filter" ->
           IF d.kind \in op.keep THEN Returned(op, "Some", d)
                                 ELSE Returned(op, "None", d)
      [] op.kind = "enrich" -> Returned(op, "Some", d)
      [] op.kind = "sample" ->
           LET next == [op EXCEPT !.counter = @ + 1]
           IN  IF next.counter % SampleThreshold(op.rate) = 0
                 THEN Returned(next, "Some", d)
                 ELSE Returned(next, "None", d)
      [] op.kind = "aggregate" ->
           Returned(IF d.kind = "Metrics"
                      THEN [op EXCEPT !.aggregations = Aggregate(@, d.items)]
                      ELSE op,
                    "Some", d)
      [] OTHER -> Returned(op, "Err", d)

\* the state of OperatorChain::process before operator i: the operators
\* so far, the value of current, and the operators invoked
Progress(ops, result, data, invoked) ==
    [ops |-> ops, result |-> result, data |-> data, invoked |-> invoked]

RECURSIVE OperatorChainNoBreak(_, _)
\* faulty variant of OperatorChain_loop: after a None the loop goes on and
\* hands the dropped batch to the later operators
OperatorChainNoBreak(st, i) ==
    IF i > Len(st.ops) THEN st
    ELSE LET r == Operator_process(st.ops[i], st.data)
             ops == [st.ops EXCEPT ![i] = r.op]
         IN  IF r.result = "Err"
               THEN Progress(ops, "Err", st.data, Append(st.invoked, i))
               ELSE OperatorChainNoBreak(
                      Progress(ops,
                               IF st.result = "None" THEN "None" ELSE r.result,
                               st.data, Append(st.invoked, i)),
                      i + 1)

RECURSIVE OperatorChain_loop(_, _)
\* operators/mod.rs:30-36 the loop of OperatorChain::process from operator i
\* on: break on current = None, return on Err (the ? of line 32)
OperatorChain_loop(st, i) ==
    IF i > Len(st.ops) \/ st.result = "None" THEN st
    ELSE LET r == Operator_process(st.ops[i], st.data)
             ops == [st.ops EXCEPT ![i] = r.op]
         IN  IF r.result = "Err"
               THEN Progress(ops, "Err", st.data, Append(st.invoked, i))
               ELSE OperatorChain_loop(
                      Progress(ops, r.result, r.data, Append(st.invoked, i)),
                      i + 1)

\* operators/mod.rs:27-39 OperatorChain::process
OperatorChain_process(ops, data) ==
    OperatorChain_loop(Progress(ops, "Some", data, <<>>), 1)

\* no call of OperatorChain::process yet
NoChainOut == [call |-> 0, input |-> NoBatch, result |-> "none",
               data |-> NoBatch, invoked |-> <<>>]

----------------------------------------------------------------------------
(* State *)

VARIABLES
    data_rx,            \* engine.rs:70-71 contents of the mpsc ingestion queue
    submitted,          \* number of batches accepted by the queue so far
    last_submit,        \* result of the producer's last submit
    pc,                 \* position of StreamEngine::run / process_data
    cur,                \* the batch process_data is working on
    pending,            \* the alert check_* returned for cur, not yet sent
    anomaly_detector,   \* engine.rs:74 Some(..) after build_pipeline?
    trace_correlator,   \* engine.rs:75
    topology_discovery, \* engine.rs:76
    baseline_metrics,   \* analytics/mod.rs:12
    traces,             \* analytics/mod.rs:95
    services,           \* analytics/mod.rs:137
    edges,              \* analytics/mod.rs:138
    now,                \* last reading of chrono::Utc::now().timestamp_millis()
    log,                \* history of the effects of process_data, in order
    alert_tx,           \* engine.rs:72 every alert sent on the broadcast channel
    subscribers,        \* live receivers of the broadcast channel
    alert_rx,           \* sinks/mod.rs:58 read position of each receiver
    sink_pc,            \* position of AlertSink::run / send_alert
    sink_cur,           \* the alert send_alert is working on
    sink_config,        \* sinks/mod.rs:57 which notifiers are configured
    operators,          \* operators/mod.rs:13 the operators of an OperatorChain
    chain_out,          \* the last call of OperatorChain::process and its result
    notified            \* history of notifier calls

vars == <<data_rx, submitted, last_submit, pc, cur, pending, anomaly_detector,
          trace_correlator, topology_discovery, baseline_metrics, traces,
          services, edges, now, log, alert_tx, subscribers, alert_rx,
          sink_pc, sink_cur, sink_config, notified, operators, chain_out>>

engineVars == <<pc, cur, pending, traces, services, edges, now, log, alert_tx>>
configVars == <<anomaly_detector, trace_correlator, topology_discovery,
                baseline_metrics, subscribers, sink_config>>
sinkVars   == <<alert_rx, sink_pc, sink_cur, notified>>
queueVars  == <<data_rx, submitted, last_submit>>
chainVars  == <<operators, chain_out>>

IoOutcomes == {"Ok", "Err"}

----------------------------------------------------------------------------
(* Construction: StreamEngine::new and build_pipeline, engine.rs:99-149 *)

\* config.rs:38-66 the three enabled flags are configuration inputs
\* config.rs:96-98 webhook_url and slack_webhook are optional
SinkConfigs == [webhook_url : BOOLEAN, slack_webhook : BOOLEAN]

\* config.rs:38-66 anomaly_detection.enabled, trace_correlation.enabled and
\* topology_discovery.enabled
EngineConfigs == [anomaly : BOOLEAN, correlation : BOOLEAN, topology : BOOLEAN]

\* config.rs:108-110 the defaults: every component enabled
DefaultEngineConfig == [anomaly |-> TRUE, correlation |-> TRUE, topology |-> TRUE]

\* engine.rs:99-149 and analytics/mod.rs:22-27, 99-104, 158-164: the state
\* main() has built when it calls run(), for an engine configuration of
\* engine_configs and a sink configuration of sink_configs.  running_sink
\* says whether some task drives AlertSink::run; observers are further
\* receivers of the fan-out.
InitWith(engine_configs, sink_configs, running_sink, observers) ==
    /\ data_rx = <<>>
    /\ submitted = 0
    /\ last_submit = "none"
    /\ pc = "recv"
    /\ cur = NoBatch
    /\ pending = NoAlert
    /\ \E c \in engine_configs :
         /\ anomaly_detector = c.anomaly
         /\ trace_correlator = c.correlation
         /\ topology_discovery = c.topology
    /\ baseline_metrics = EmptyMap
    /\ traces = EmptyMap
    /\ services = EmptyMap
    /\ edges = EmptyMap
    /\ now = 0
    /\ log = <<>>
    /\ alert_tx = <<>>
    /\ subscribers = {"alert_sink"} \cup observers
    /\ alert_rx = [r \in subscribers |-> 0]
    /\ sink_pc = IF running_sink THEN "recv" ELSE "unspawned"
    /\ sink_cur = NoAlert
    /\ sink_config \in sink_configs
    /\ notified = <<>>
    /\ operators = <<>>
    /\ chain_out = NoChainOut

----------------------------------------------------------------------------
(* The ingestion queue: tokio mpsc::channel, engine.rs:100 *)

\* faulty variant of HasRoom: the queue built with mpsc::unbounded_channel()
HasRoomUnbounded(q) == TRUE

\* engine.rs:100 the channel is bounded: a send finds room only below capacity
HasRoom(q) == Len(q) < DataChannelCapacity

\* submit(batch), blocking variant (Sender::send): waits while the queue is full
Submit ==
    /\ submitted < MaxBatches
    /\ HasRoom(data_rx)
    /\ \E p \in Payloads :
         data_rx' = Append(data_rx,
                           [id |-> submitted + 1, kind |-> p.kind, items |-> p.items])
    /\ submitted' = submitted + 1
    /\ last_submit' = "Ok"
    /\ UNCHANGED <<engineVars, configVars, chainVars, sinkVars>>

\* submit(batch), non-blocking variant (Sender::try_send) on a full queue
SubmitFull ==
    /\ submitted < MaxBatches
    /\ ~HasRoom(data_rx)
    /\ last_submit' = "QueueFull"
    /\ UNCHANGED <<data_rx, submitted, engineVars, configVars, chainVars, sinkVars>>

----------------------------------------------------------------------------
(* StreamEngine::run and process_data: engine.rs:152-212 *)

\* one effect of process_data on the batch in hand; alert is the name of the
\* alert the call returned or sent ("None" when there is none)
Event(op, alert) == [id |-> cur.id, kind |-> cur.kind, op |-> op, alert |-> alert]

\* faulty variant of FirstStage: the Logs arm returns without reaching the write
FirstStageLogsReturn(kind) ==
    CASE kind = "Traces"  -> "correlate"
      [] kind = "Metrics" -> "detect"
      [] OTHER            -> "recv"

\* engine.rs:170-204 the arm of the match that process_data enters
FirstStage(kind) ==
    CASE kind = "Traces"  -> "correlate"
      [] kind = "Metrics" -> "detect"
      [] OTHER            -> "write"

\* faulty variant of StageAfter: the storage write placed before the alert publish
StageAfterWriteFirst(stage, alert) ==
    CASE stage = "correlate" -> "topology"
      [] stage = "topology"  -> "detect"
      [] stage = "detect"    -> "write"
      [] stage = "write"     -> IF alert # NoAlert THEN "publish" ELSE "recv"
      [] stage = "publish"   -> "recv"

\* faulty variant of StageAfter: the alert the detector returned is dropped
StageAfterNoPublish(stage, alert) ==
    CASE stage = "correlate" -> "topology"
      [] stage = "topology"  -> "detect"
      [] stage = "detect"    -> "write"
      [] stage = "publish"   -> "write"
      [] stage = "write"     -> "recv"

\* engine.rs:175-211 the statement that follows each statement of process_data
\* when it returned Ok; "recv" is the return to the loop of run()
StageAfter(stage, alert) ==
    CASE stage = "correlate" -> "topology"
      [] stage = "topology"  -> "detect"
      [] stage = "detect"    -> IF alert # NoAlert THEN "publish" ELSE "write"
      [] stage = "publish"   -> "write"
      [] stage = "write"     -> "recv"

\* faulty variant of Dequeue: the newest queued batch is handed out first
DequeueNewest(q) == <<q[Len(q)], SubSeq(q, 1, Len(q) - 1)>>

\* engine.rs:161 the mpsc receiver hands out the oldest queued batch
Dequeue(q) == <<Head(q), Tail(q)>>

\* engine.rs:161 data_rx.recv().await returned Some(data)
RunRecv ==
    /\ pc = "recv"
    /\ data_rx # <<>>
    /\ cur' = Dequeue(data_rx)[1]
    /\ data_rx' = Dequeue(data_rx)[2]
    /\ pc' = FirstStage(cur'.kind)
    /\ pending' = NoAlert
    /\ UNCHANGED <<submitted, last_submit, traces, services, edges, now, log,
                   alert_tx, configVars, chainVars, sinkVars>>

\* engine.rs:175-177 if let Some(correlator) { correlator.process(spans)? }
Correlate ==
    /\ pc = "correlate"
    /\ IF trace_correlator
         THEN \E t \in now .. MaxNow :
                /\ now' = t
                /\ traces' = TraceCorrelator_process(traces, cur.items, t)
                /\ log' = Append(log, Event("correlate", "None"))
         ELSE UNCHANGED <<now, traces, log>>
    /\ pc' = StageAfter("correlate", pending)
    /\ UNCHANGED <<cur, pending, services, edges, alert_tx, queueVars,
                   configVars, chainVars, sinkVars>>

\* engine.rs:180-182 if let Some(topology) { topology.process(spans)? }
Topology ==
    /\ pc = "topology"
    /\ IF topology_discovery
         THEN \E o \in OverflowOutcomes(
                        TopologyOverflows(<<services, edges>>, cur.items)) :
                IF o = "panic"
                  THEN \* the task unwinds; the stores die with the process
                       /\ pc' = "panicked"
                       /\ log' = Append(log, Event("topology_panic", "None"))
                       /\ UNCHANGED <<services, edges>>
                  ELSE /\ services' = TopologyDiscovery_process(
                                         <<services, edges>>, cur.items)[1]
                       /\ edges' = TopologyDiscovery_process(
                                      <<services, edges>>, cur.items)[2]
                       /\ log' = Append(log, Event("topology", "None"))
                       /\ pc' = StageAfter("topology", pending)
         ELSE /\ UNCHANGED <<services, edges, log>>
              /\ pc' = StageAfter("topology", pending)
    /\ UNCHANGED <<cur, pending, traces, now, alert_tx, queueVars, configVars, chainVars,
                   sinkVars>>

\* faulty variant of Detect: the detector call on a Metrics batch empties the
\* trace window
DetectClearsTraces ==
    /\ pc = "detect"
    /\ IF anomaly_detector
         THEN /\ pending' = IF cur.kind = "Traces"
                              THEN check_traces(cur.items)
                              ELSE check_metrics(cur.items, baseline_metrics)
              /\ log' = Append(log, Event("detect", pending'.name))
         ELSE UNCHANGED <<pending, log>>
    /\ traces' = IF cur.kind = "Traces" THEN traces ELSE EmptyMap
    /\ pc' = StageAfter("detect", pending')
    /\ UNCHANGED <<cur, services, edges, now, alert_tx, queueVars,
                   configVars, chainVars, sinkVars>>

\* faulty variant of Detect: check_metrics learns a baseline from the metrics
\* it is shown
DetectLearnsBaseline ==
    /\ pc = "detect"
    /\ IF anomaly_detector
         THEN /\ pending' = IF cur.kind = "Traces"
                              THEN check_traces(cur.items)
                              ELSE check_metrics(cur.items, baseline_metrics)
              /\ log' = Append(log, Event("detect", pending'.name))
         ELSE UNCHANGED <<pending, log>>
    /\ baseline_metrics' =
         IF cur.kind = "Metrics" /\ cur.items # <<>>
           THEN [n \in DOMAIN baseline_metrics \cup {cur.items[1].name} |->
                   [mean |-> cur.items[1].value, std_dev |-> 0]]
           ELSE baseline_metrics
    /\ pc' = StageAfter("detect", pending')
    /\ UNCHANGED <<cur, traces, services, edges, now, alert_tx, queueVars,
                   anomaly_detector, trace_correlator, topology_discovery,
                   subscribers, sink_config, sinkVars, chainVars>>

\* engine.rs:185-186 and 195-196 detector.check_traces / check_metrics
Detect ==
    /\ pc = "detect"
    /\ IF anomaly_detector
         THEN /\ pending' = IF cur.kind = "Traces"
                              THEN check_traces(cur.items)
                              ELSE check_metrics(cur.items, baseline_metrics)
              /\ log' = Append(log, Event("detect", pending'.name))
         ELSE UNCHANGED <<pending, log>>
    /\ pc' = StageAfter("detect", pending')
    /\ UNCHANGED <<cur, traces, services, edges, now, alert_tx, queueVars,
                   configVars, chainVars, sinkVars>>

\* faulty variant of SendResult: the AlertSink's receiver not kept alive
SendResultNoReceiver(receivers) == "Err"

\* tokio broadcast::Sender::send: Err exactly when no receiver is alive
SendResult(receivers) == IF receivers = {} THEN "Err" ELSE "Ok"

\* faulty variant of Publish: the alert in hand sent twice
PublishTwice ==
    /\ pc = "publish"
    /\ alert_tx' = Append(Append(alert_tx, pending), pending)
    /\ log' = Append(Append(log, Event("publish", pending.name)),
                     Event("publish", pending.name))
    /\ pc' = StageAfter("publish", NoAlert)
    /\ pending' = NoAlert
    /\ cur' = cur
    /\ UNCHANGED <<traces, services, edges, now, queueVars, configVars, chainVars, sinkVars>>

\* engine.rs:187 and 197 self.alert_tx.send(alert)?
Publish ==
    /\ pc = "publish"
    /\ IF SendResult(subscribers) = "Ok"
         THEN /\ alert_tx' = Append(alert_tx, pending)
              /\ log' = Append(log, Event("publish", pending.name))
              /\ pc' = StageAfter("publish", NoAlert)
         ELSE /\ log' = Append(log, Event("publish_err", pending.name))
              /\ pc' = "failed"
              /\ UNCHANGED alert_tx
    /\ pending' = NoAlert
    /\ cur' = IF pc' = "recv" THEN NoBatch ELSE cur
    /\ UNCHANGED <<traces, services, edges, now, queueVars, configVars, chainVars, sinkVars>>

\* engine.rs:207-209 sink.write(&data).await? with sinks/mod.rs:22-52; the
\* storage sink is always Some after build_pipeline (engine.rs:142)
StorageWrite ==
    /\ pc = "write"
    /\ \E r \in IoOutcomes :
         /\ log' = Append(log, Event(IF r = "Ok" THEN "write" ELSE "write_err", "None"))
         /\ pc' = IF r = "Ok" THEN StageAfter("write", pending) ELSE "failed"
    /\ cur' = IF pc' = "recv" THEN NoBatch ELSE cur
    /\ UNCHANGED <<pending, traces, services, edges, now, alert_tx, queueVars,
                   configVars, chainVars, sinkVars>>

----------------------------------------------------------------------------
(* The alert fan-out (tokio broadcast) and AlertSink: sinks/mod.rs:55-118 *)

\* faulty variant of BroadcastRecv: a channel that never reports lag and hands a
\* receiver that fell behind the alert after its cursor
BroadcastRecvNoLag(sent, cursor) ==
    [result |-> "Ok", next |-> cursor + 1, seq |-> cursor + 1]

\* sinks/mod.rs:70 self.alert_rx.recv().await on a receiver that has taken
\* cursor of the sent alerts: the channel keeps the newest
\* AlertChannelCapacity alerts; a receiver further behind gets Err(Lagged)
\* and is moved to the oldest alert kept.  Called only when sent has an
\* alert the receiver has not taken (otherwise recv waits: the engine owns
\* a Sender for its whole life, so the channel never closes).
BroadcastRecv(sent, cursor) ==
    IF Len(sent) - cursor > AlertChannelCapacity
      THEN [result |-> "Lagged", next |-> Len(sent) - AlertChannelCapacity, seq |-> 0]
      ELSE [result |-> "Ok", next |-> cursor + 1, seq |-> cursor + 1]

\* sinks/mod.rs:70-73 while let Ok(alert) = recv().await { send_alert()? } Ok(())
SinkRecv ==
    /\ sink_pc = "recv"
    /\ Len(alert_tx) > alert_rx["alert_sink"]
    /\ LET r == BroadcastRecv(alert_tx, alert_rx["alert_sink"])
       IN  /\ alert_rx' = [alert_rx EXCEPT !["alert_sink"] = r.next]
           /\ sink_cur' = r.seq
           /\ sink_pc' = IF r.result = "Ok" THEN "webhook" ELSE "returned"
    /\ UNCHANGED <<notified, queueVars, engineVars, configVars, chainVars>>

Call(notifier, r) == [seq |-> sink_cur, notifier |-> notifier, result |-> r]

\* sinks/mod.rs:85-87 if let Some(webhook_url) { self.send_webhook(..).await? }
SinkWebhook ==
    /\ sink_pc = "webhook"
    /\ IF sink_config.webhook_url
         THEN \E r \in IoOutcomes :
                /\ notified' = Append(notified, Call("webhook", r))
                /\ sink_pc' = IF r = "Ok" THEN "slack" ELSE "failed"
         ELSE /\ sink_pc' = "slack"
              /\ UNCHANGED notified
    /\ UNCHANGED <<alert_rx, sink_cur, queueVars, engineVars, configVars, chainVars>>

\* sinks/mod.rs:90-92 if let Some(slack_webhook) { self.send_slack(..).await? }
SinkSlack ==
    /\ sink_pc = "slack"
    /\ IF sink_config.slack_webhook
         THEN \E r \in IoOutcomes :
                /\ notified' = Append(notified, Call("slack", r))
                /\ sink_pc' = IF r = "Ok" THEN "recv" ELSE "failed"
         ELSE /\ sink_pc' = "recv"
              /\ UNCHANGED notified
    /\ UNCHANGED <<alert_rx, sink_cur, queueVars, engineVars, configVars, chainVars>>

\* a further subscriber of the fan-out, which keeps receiving after a lag
ObserverRecv ==
    \E o \in subscribers \ {"alert_sink"} :
      /\ Len(alert_tx) > alert_rx[o]
      /\ alert_rx' = [alert_rx EXCEPT ![o] = BroadcastRecv(alert_tx, alert_rx[o]).next]
      /\ UNCHANGED <<sink_pc, sink_cur, notified, queueVars, engineVars, configVars, chainVars>>

----------------------------------------------------------------------------
(* Shutdown: main.rs:63-67 *)

\* main.rs:64-65 "press Ctrl+C to stop": main installs no signal handler and
\* run() has no cancellation branch, so SIGINT ends the process wherever the
\* consume loop is
Interrupt ==
    /\ pc \notin {"failed", "killed"}
    /\ pc' = "killed"
    /\ UNCHANGED <<cur, pending, traces, services, edges, now, log, alert_tx,
                   queueVars, configVars, chainVars, sinkVars>>

----------------------------------------------------------------------------
(* Specifications *)

Producer == Submit \/ SubmitFull
Engine   == RunRecv \/ Correlate \/ Topology \/ Detect \/ Publish \/ StorageWrite
Sink     == SinkRecv \/ SinkWebhook \/ SinkSlack

BothNotifiers == [webhook_url |-> TRUE, slack_webhook |-> TRUE]

\* The program as main() wires it: engine.rs:143-146 constructs the AlertSink
\* and nothing calls AlertSink::run.
Init == InitWith(EngineConfigs, {BothNotifiers}, FALSE, {})
Next == Producer \/ Engine
Spec == Init /\ [][Next]_vars

\* The same program with the fairness of the tokio scheduler: a task that can
\* make progress is eventually polled.
FairSpec == Spec /\ WF_vars(Engine) /\ WF_vars(Producer)

\* The same program receiving SIGINT at any moment.
SignalNext == Next \/ Interrupt
SignalSpec == Init /\ [][SignalNext]_vars

\* The engine together with a task that drives AlertSink::run and one more
\* subscriber of the fan-out; anomaly detection enabled.
SinkInit == InitWith({[anomaly |-> TRUE, correlation |-> FALSE, topology |-> FALSE]},
                     SinkConfigs, TRUE, {"observer"})
SinkNext == Producer \/ Engine \/ Sink \/ ObserverRecv
SinkSpec == SinkInit /\ [][SinkNext]_vars

----------------------------------------------------------------------------
(* The detector's rules on their own: check_traces and check_metrics applied
   by process_data (the Detect step) to batches drawn from bounded sets *)

\* a span batch of a spans of latency 0, b of latency LatencyThreshold and c
\* of latency LatencyThreshold + 1, of which e have Error status: the first
\* e when err_first, the last e otherwise
BuildSpans(a, b, c, e, err_first) ==
    [i \in 1 .. (a + b + c) |->
       MkSpan("t1", "a", 0,
              IF i <= a THEN 0
                ELSE IF i <= a + b THEN LatencyThreshold
                ELSE LatencyThreshold + 1,
              IF (err_first /\ i <= e) \/ (~err_first /\ i > a + b + c - e)
                THEN "Error" ELSE "Ok",
              NoPeer)]

SpanBatches ==
    { BuildSpans(x[1], x[2], x[3], x[4], x[5]) :
        x \in { y \in (0 .. MaxSpans) \X (0 .. MaxSpans) \X (0 .. MaxSpans)
                       \X (0 .. MaxSpans) \X BOOLEAN :
                  y[1] + y[2] + y[3] <= MaxSpans /\ y[4] <= y[1] + y[2] + y[3] } }

\* analytics/mod.rs:15-19 MetricBaseline (count is never read)
MkBaseline(mean, std_dev) == [mean |-> mean, std_dev |-> std_dev]

MetricNames  == {"cpu", "mem"}
MetricValues == {19, 50, 80, 81}

MetricBatches ==
    UNION { [1 .. n -> {MkMetric(nm, v) : nm \in MetricNames, v \in MetricValues}] :
              n \in 0 .. MaxMetrics }

\* baseline stores check_metrics may be handed: cpu without a baseline, with
\* {mean 50, std_dev 10} or with {mean 50, std_dev 0}; mem without or with
\* {mean 50, std_dev 10}
BaselineStores ==
    { EmptyMap,
      [n \in {"cpu"} |-> MkBaseline(50, 10)],
      [n \in {"cpu"} |-> MkBaseline(50, 0)],
      [n \in {"mem"} |-> MkBaseline(50, 10)],
      [n \in {"cpu", "mem"} |-> MkBaseline(50, 10)],
      [n \in {"cpu", "mem"} |-> IF n = "cpu" THEN MkBaseline(50, 0)
                                              ELSE MkBaseline(50, 10)] }

\* engine.rs:184-199: process_data about to call the detector on a batch of
\* kind with items out of batches, the detector holding a baseline store
\* out of stores; correlation and topology discovery disabled
RuleInit(kind, batches, stores) ==
    /\ data_rx = <<>>
    /\ submitted = 1
    /\ last_submit = "Ok"
    /\ pc = "detect"
    /\ \E b \in batches : cur = [id |-> 1, kind |-> kind, items |-> b]
    /\ pending = NoAlert
    /\ anomaly_detector = TRUE
    /\ trace_correlator = FALSE
    /\ topology_discovery = FALSE
    /\ baseline_metrics \in stores
    /\ traces = EmptyMap
    /\ services = EmptyMap
    /\ edges = EmptyMap
    /\ now = 0
    /\ log = <<>>
    /\ alert_tx = <<>>
    /\ subscribers = {"alert_sink"}
    /\ alert_rx = [r \in subscribers |-> 0]
    /\ sink_pc = "unspawned"
    /\ sink_cur = NoAlert
    /\ sink_config = BothNotifiers
    /\ notified = <<>>
    /\ operators = <<>>
    /\ chain_out = NoChainOut

TraceRuleInit == RuleInit("Traces", SpanBatches, {EmptyMap})
TraceRuleSpec == TraceRuleInit /\ [][Detect]_vars

MetricRuleInit == RuleInit("Metrics", MetricBatches, BaselineStores)
MetricRuleSpec == MetricRuleInit /\ [][Detect]_vars

----------------------------------------------------------------------------
(* The trace window driven directly: TraceCorrelator::process called with
   span batches at clock readings that never go back *)

\* a span of trace tid that ended end_ms milliseconds after the epoch; its
\* times are in nanoseconds
WinSpan(tid, svc, end_ms) ==
    MkSpan(tid, svc, end_ms * NanosPerMilli, end_ms * NanosPerMilli, "Ok", NoPeer)

SpanA1 == WinSpan("t1", "a", 1)
SpanB1 == WinSpan("t1", "b", 2)
SpanA2 == WinSpan("t2", "a", 2)

CorrelatorBatches ==
    { <<>>, <<SpanA1>>, <<SpanB1>>, <<SpanA2>>, <<SpanA1, SpanB1>>,
      <<SpanB1, SpanA1>>, <<SpanA1, SpanA2, SpanB1>> }

\* the record of one direct call in the history
CallEvent(op, spans, clock) ==
    [id |-> Len(log) + 1, kind |-> "Traces", op |-> op, alert |-> "None",
     items |-> spans, clock |-> clock]

\* analytics/mod.rs:106-118 one call of TraceCorrelator::process; the clock
\* is read by cleanup_old_traces (analytics/mod.rs:121)
CorrelatorCall ==
    /\ Len(log) < MaxCalls
    /\ \E b \in CorrelatorBatches, t \in now .. MaxClock :
         /\ now' = t
         /\ traces' = TraceCorrelator_process(traces, b, t)
         /\ log' = Append(log, CallEvent("process", b, t))
    /\ UNCHANGED <<pc, cur, pending, services, edges, alert_tx, queueVars,
                   configVars, chainVars, sinkVars>>

CorrelatorInit == InitWith({DefaultEngineConfig}, {BothNotifiers}, FALSE, {})
CorrelatorSpec == CorrelatorInit /\ [][CorrelatorCall]_vars

----------------------------------------------------------------------------
(* The topology graph driven directly: TopologyDiscovery::process called
   with span batches *)

\* a span of scaled latency 40 (about 2^63 ns of accumulated latency)
SpanLong == MkSpan("t1", "a", 0, 40, "Ok", NoPeer)
\* a span whose end_time lies before its start_time
SpanBackwards == MkSpan("t1", "b", 2, 1, "Ok", NoPeer)
\* spans of services and peers whose names hold a colon
SpanColonService == MkSpan("t1", "a:b", 0, 1, "Ok", "c")
SpanColonPeer == MkSpan("t1", "a", 0, 1, "Error", "b:c")

TopologyBatches ==
    { <<>>, <<SpanOk>>, <<SpanErr>>, <<SpanLong>>, <<SpanBackwards>>,
      <<SpanColonService>>, <<SpanColonPeer>>,
      <<SpanOk, SpanErr>>, <<SpanErr, SpanOk>>,
      <<SpanColonService, SpanColonPeer>>, <<SpanColonPeer, SpanColonService>>,
      <<SpanLong, SpanOk>>, <<SpanOk, SpanLong>> }

\* analytics/mod.rs:166-205 one call of TopologyDiscovery::process
TopologyCall ==
    /\ pc = "recv"
    /\ Len(log) < MaxCalls
    /\ \E b \in TopologyBatches :
         \E o \in OverflowOutcomes(TopologyOverflows(<<services, edges>>, b)) :
           IF o = "panic"
             THEN /\ pc' = "panicked"
                  /\ log' = Append(log, CallEvent("panic", b, now))
                  /\ UNCHANGED <<services, edges>>
             ELSE /\ services' = TopologyDiscovery_process(<<services, edges>>, b)[1]
                  /\ edges' = TopologyDiscovery_process(<<services, edges>>, b)[2]
                  /\ log' = Append(log, CallEvent("process", b, now))
                  /\ pc' = pc
    /\ UNCHANGED <<cur, pending, traces, now, alert_tx, queueVars, configVars, chainVars,
                   sinkVars>>

TopologyInit == InitWith({DefaultEngineConfig}, {BothNotifiers}, FALSE, {})
TopologySpec == TopologyInit /\ [][TopologyCall]_vars

----------------------------------------------------------------------------
(* An operator chain driven directly: OperatorChain::add and
   OperatorChain::process *)

\* the operators a chain is built from: a filter that keeps Metrics, an
\* enrichment, a sampler of rate 1/2, an aggregation, a failing operator
OperatorPalette ==
    { MkFilter({"Metrics"}), MkEnrich, MkSample(1, 2), MkAggregate, MkFailing }

ChainInputs ==
    { [kind |-> "Metrics", items |-> <<MkMetric("cpu", 95)>>],
      [kind |-> "Traces",  items |-> <<SpanOk>>],
      [kind |-> "Logs",    items |-> <<>>] }

\* operators/mod.rs:23-25 OperatorChain::add
ChainAdd ==
    /\ Len(operators) < MaxChainLen
    /\ \E op \in OperatorPalette : operators' = Append(operators, op)
    /\ UNCHANGED <<chain_out, queueVars, engineVars, configVars, sinkVars>>

\* operators/mod.rs:27-39 OperatorChain::process
ChainProcess ==
    /\ chain_out.call < MaxCalls
    /\ \E d \in ChainInputs :
         LET r == OperatorChain_process(operators, d)
         IN  /\ operators' = r.ops
             /\ chain_out' = [call |-> chain_out.call + 1, input |-> d,
                              result |-> r.result,
                              data |-> IF r.result = "Some" THEN r.data ELSE NoBatch,
                              invoked |-> r.invoked]
    /\ UNCHANGED <<queueVars, engineVars, configVars, sinkVars>>

ChainInit == InitWith({DefaultEngineConfig}, {BothNotifiers}, FALSE, {})
ChainNext == ChainAdd \/ ChainProcess
ChainSpec == ChainInit /\ [][ChainNext]_vars

----------------------------------------------------------------------------
(* Reading the history *)

WriteOps == {"write", "write_err"}

\* the positions of the log that hold effect op of batch id
At(id, ops) == {i \in DOMAIN log : log[i].id = id /\ log[i].op \in ops}

\* the engine is no longer working on batch id: it is back in the loop of
\* run() with another batch or none, or run() has returned
DoneWith(id) ==
    /\ id \in 1 .. submitted
    /\ \A i \in DOMAIN data_rx : data_rx[i].id # id
    /\ (cur.id # id \/ pc \in {"recv", "failed"})

\* check_* returned an alert for batch id
AlertDue(id) == \E i \in At(id, {"detect"}) : log[i].alert # "None"

\* the place of each effect in process_data
Rank(op) ==
    CASE op = "correlate" -> 1
      [] op = "topology"  -> 2
      [] op = "detect"    -> 3
      [] op \in {"publish", "publish_err"} -> 4
      [] op \in WriteOps  -> 5

----------------------------------------------------------------------------
(* Claims *)

C2_OneWritePerBatch ==
    \A id \in 1 .. submitted :
      /\ Cardinality(At(id, WriteOps)) <= 1
      /\ (\E i \in DOMAIN data_rx : data_rx[i].id = id) => At(id, WriteOps) = {}
      /\ DoneWith(id) => Cardinality(At(id, WriteOps)) = 1

\* C2 witness: the engine is done with a Logs batch, with a batch that
\* raised an alert and with a batch that raised none, each written once
C2_Witness ==
    /\ \A id \in 1 .. 3 : DoneWith(id) /\ Cardinality(At(id, WriteOps)) = 1
    /\ \E id \in 1 .. 3 : \E i \in At(id, WriteOps) : log[i].kind = "Logs"
    /\ \E id \in 1 .. 3 : AlertDue(id)
    /\ \E id \in 1 .. 3 : At(id, {"detect"}) # {} /\ ~AlertDue(id)

C4_WriteErrorSwallowed ==
    (\E i \in DOMAIN log : log[i].op = "write_err") => pc # "failed"

\* C8: batches are processed in queue order: every effect of a batch
\* enqueued earlier precedes every effect of a batch enqueued later.
C8_Fifo ==
    \A i, j \in DOMAIN log : i < j => log[i].id <= log[j].id

\* C8 witness: two batches were queued together and both have been processed
C8_Witness ==
    /\ At(1, WriteOps) # {} /\ At(2, WriteOps) # {}
    /\ \E i \in At(1, WriteOps) : \E j \in At(2, WriteOps) : i < j
    /\ submitted = 3 /\ Len(data_rx) = 1

\* C9: the ingestion queue never holds more than its capacity; while it is
\* full no step enqueues (the queue is unchanged or loses its head), and a
\* submit that reports QueueFull leaves the queue as it was.
C9_QueueBounded ==
    /\ [](Len(data_rx) <= DataChannelCapacity)
    /\ [][Len(data_rx) >= DataChannelCapacity
            => (data_rx' = data_rx \/ data_rx' = Tail(data_rx))]_vars
    /\ [][(last_submit' = "QueueFull" /\ last_submit # "QueueFull")
            => (Len(data_rx) = DataChannelCapacity /\ data_rx' = data_rx
                /\ submitted' = submitted)]_vars

\* C9 witness: a submit met a full queue and reported QueueFull
C9_Witness ==
    Len(data_rx) = DataChannelCapacity /\ last_submit = "QueueFull"

\* C5 (as stated): a failed notifier call neither ends the sink's receive
\* loop nor keeps the other configured notifier from being called for the
\* same alert.
C5_NotifierFailureIsolated ==
    /\ sink_pc # "failed"
    /\ \A i \in DOMAIN notified :
         (/\ notified[i].notifier = "webhook"
          /\ notified[i].result = "Err"
          /\ sink_config.slack_webhook
          /\ (sink_cur # notified[i].seq \/ sink_pc \in {"recv", "failed", "returned"}))
         => \E j \in DOMAIN notified :
              notified[j].seq = notified[i].seq /\ notified[j].notifier = "slack"

\* C6 (as stated): when the shutdown signal has stopped the consume loop, the
\* batch that was in flight has been processed to completion.
C6_GracefulShutdown ==
    pc = "killed" => cur = NoBatch

\* C7 (as stated): every alert published to the fan-out is eventually
\* received by the Alert Sink.
C7_AlertsReachSink ==
    \A n \in 1 .. MaxBatches :
      (Len(alert_tx) >= n) ~> (alert_rx["alert_sink"] >= n)

\* C10: publishing never blocks: the publish step is enabled whenever the
\* engine is at it, however far behind the receivers are, and it moves no
\* cursor; a receiver more than the capacity behind gets the lagged result
\* on its next receive and is moved past the alerts it lost (the sink's loop
\* then ends), a receiver within the capacity takes the next alert; and a
\* receive moves the cursor of that receiver alone.
C10_PublishNeverBlocks ==
    /\ [](pc = "publish" => ENABLED Publish)
    /\ [][alert_tx' # alert_tx => alert_rx' = alert_rx]_vars
    /\ [][\A r \in subscribers :
            alert_rx'[r] # alert_rx[r] =>
              /\ \A o \in subscribers \ {r} : alert_rx'[o] = alert_rx[o]
              /\ IF Len(alert_tx) - alert_rx[r] > AlertChannelCapacity
                   THEN /\ alert_rx'[r] = Len(alert_tx) - AlertChannelCapacity
                        /\ alert_rx'[r] > alert_rx[r]
                        /\ r = "alert_sink" => (sink_pc' = "returned" /\ sink_cur' = 0)
                   ELSE /\ alert_rx'[r] = alert_rx[r] + 1
                        /\ r = "alert_sink" =>
                             (sink_pc' = "webhook" /\ sink_cur' = alert_rx'[r])]_vars

\* C10 witness: the engine published while the sink was already a full
\* buffer behind; the sink then met the lag and lost the oldest alert, and
\* the other receiver's cursor is where it was
C10_Witness ==
    /\ sink_pc = "returned"
    /\ Len(alert_tx) > AlertChannelCapacity
    /\ alert_rx["alert_sink"] = Len(alert_tx) - AlertChannelCapacity
    /\ alert_rx["observer"] = 0

\* C11 (as stated): the sink's run loop hands alerts to the notifiers in
\* publish order, and it has ended only when its receive reported lag (the
\* channel never closes while the engine lives); after a lag it takes no
\* further alert.
C11_SinkEndsOnlyOnLagOrClose ==
    /\ \A i, j \in DOMAIN notified : i < j => notified[i].seq <= notified[j].seq
    /\ sink_pc \in {"returned", "failed"} =>
         (sink_pc = "returned" /\ sink_cur = 0)

\* the batch's error rate (Error spans / batch length) exceeds 0.10
ErrorRateHigh(spans) ==
    10 * Cardinality({i \in DOMAIN spans : spans[i].status = "Error"}) > Len(spans)

\* the batch's mean latency (sum of end_time - start_time / batch length)
\* exceeds the latency threshold
MeanLatencyHigh(spans) ==
    SumSeq([i \in DOMAIN spans |-> spans[i].end_time - spans[i].start_time])
      > LatencyThreshold * Len(spans)

\* the detector has been called on the batch in hand
Detected == At(cur.id, {"detect"}) # {}

\* C12: for a non-empty span batch with error rate > 0.10 check_traces
\* returns the Critical "High Error Rate" alert, whatever the mean latency.
C12_ErrorRatePrecedence ==
    (Detected /\ cur.items # <<>> /\ ErrorRateHigh(cur.items))
      => pending = MkAlert("High Error Rate", "Critical")

\* C12 witness: a batch with error rate > 0.10 and mean latency above the
\* threshold was checked
C12_Witness ==
    /\ Detected /\ cur.items # <<>>
    /\ ErrorRateHigh(cur.items) /\ MeanLatencyHigh(cur.items)
    /\ pending.severity = "Critical"

\* C13: for a non-empty span batch with error rate <= 0.10 and mean latency
\* above the threshold check_traces returns the Warning "High Latency" alert.
C13_HighLatency ==
    (Detected /\ cur.items # <<>> /\ ~ErrorRateHigh(cur.items)
       /\ MeanLatencyHigh(cur.items))
      => pending = MkAlert("High Latency", "Warning")

\* C13 witness: ten spans, one of them in error (exactly 10%), mean latency
\* above the threshold by less than one unit
C13_Witness ==
    /\ Detected /\ Len(cur.items) = 10 /\ ErrorCount(cur.items) = 1
    /\ \E i \in DOMAIN cur.items : cur.items[i].end_time = LatencyThreshold
    /\ \A i \in DOMAIN cur.items : cur.items[i].end_time >= LatencyThreshold
    /\ MeanLatencyHigh(cur.items)
    /\ pending.name = "High Latency"

\* C14: for a span batch with error rate <= 0.10 and mean latency <= the
\* threshold (both exclusive thresholds met exactly included, and the empty
\* batch) check_traces returns no alert.
C14_NoAlertBelowThresholds ==
    (Detected /\ ~ErrorRateHigh(cur.items) /\ ~MeanLatencyHigh(cur.items))
      => pending = NoAlert

\* C14 witness: ten spans, one in error (exactly 10%), every latency exactly
\* the threshold, and no alert
C14_Witness ==
    /\ Detected /\ Len(cur.items) = 10 /\ ErrorCount(cur.items) = 1
    /\ \A i \in DOMAIN cur.items : cur.items[i].end_time = LatencyThreshold
    /\ pending = NoAlert

\* the positions of the metric batch in hand whose metric has a baseline
\* with std_dev # 0 and |value - mean| / std_dev > 3
Offending ==
    {i \in DOMAIN cur.items :
       /\ cur.items[i].name \in DOMAIN baseline_metrics
       /\ LET b == baseline_metrics[cur.items[i].name]
          IN  /\ b.std_dev # 0
              /\ Abs(cur.items[i].value - b.mean) > 3 * b.std_dev}

\* no baseline of the store is degenerate
NonDegenerate == \A n \in DOMAIN baseline_metrics : baseline_metrics[n].std_dev # 0

\* C16: check_metrics returns the Warning alert "Anomaly in <name>" of the
\* first metric in input order that has a baseline and |z| > 3; metrics
\* without a baseline or with |z| <= 3 before it give nothing, and when no
\* metric qualifies the result is no alert.
C16_FirstOffendingMetric ==
    (Detected /\ cur.kind = "Metrics" /\ NonDegenerate) =>
      IF Offending = {} THEN pending = NoAlert
      ELSE LET first == CHOOSE i \in Offending : \A j \in Offending : i <= j
           IN  pending = MkAlert("Anomaly in " \o cur.items[first].name, "Warning")

\* C16 witness: a metric sitting exactly on |z| = 3 comes first, then an
\* offending "mem", then an offending "cpu"; the alert names "mem"
C16_Witness ==
    /\ Detected /\ cur.kind = "Metrics" /\ NonDegenerate
    /\ Len(cur.items) = 3
    /\ cur.items[1] = MkMetric("cpu", 80)
    /\ Offending = {2, 3}
    /\ cur.items[2].name = "mem" /\ cur.items[3].name = "cpu"
    /\ pending = MkAlert("Anomaly in mem", "Warning")

\* C17 (as stated): a metric whose baseline has std_dev = 0 never produces
\* an alert, whatever its value.
C17_ZeroStdDevGuarded ==
    Detected =>
      \A i \in DOMAIN cur.items :
        (/\ cur.kind = "Metrics"
         /\ cur.items[i].name \in DOMAIN baseline_metrics
         /\ baseline_metrics[cur.items[i].name].std_dev = 0)
          => pending.name # "Anomaly in " \o cur.items[i].name

PublishOps == {"publish", "publish_err"}

\* the engine holds an empty Traces or Metrics batch
EmptyInHand ==
    cur.id # 0 /\ cur.kind \in {"Traces", "Metrics"} /\ cur.items = <<>>

AllEnabled == anomaly_detector /\ trace_correlator /\ topology_discovery

\* the engine, all components enabled, holds a Traces batch whose error
\* rate exceeds 0.10
ErrorBatchInHand ==
    /\ AllEnabled /\ cur.kind = "Traces"
    /\ cur.items # <<>> /\ ErrorRateHigh(cur.items)

\* C19: for a Traces batch with error rate > 0.10, all components enabled,
\* the engine publishes exactly one alert, the Critical "High Error Rate"
\* alert, and calls the storage write exactly once: the publish is there
\* when the write is reached, the batch is left only through that write,
\* and nothing else is published or written for it.
C19_ErrorBatchEndToEnd ==
    /\ [](ErrorBatchInHand =>
            /\ Cardinality(At(cur.id, PublishOps)) <= 1
            /\ Cardinality(At(cur.id, WriteOps)) <= 1
            /\ \A i \in At(cur.id, PublishOps) :
                 /\ log[i].op = "publish" /\ log[i].alert = "High Error Rate"
                 /\ alert_tx[Len(alert_tx)] = MkAlert("High Error Rate", "Critical")
            /\ pc = "write" =>
                 /\ Cardinality(At(cur.id, PublishOps)) = 1
                 /\ At(cur.id, WriteOps) = {}
            /\ pc = "failed" => Cardinality(At(cur.id, WriteOps)) = 1)
    /\ [][(ErrorBatchInHand /\ cur' # cur) =>
            /\ pc = "write" /\ pc' = "recv"
            /\ log' = Append(log, Event("write", "None"))
            /\ alert_tx' = alert_tx]_vars

\* C19 witness: the write failed on such a batch, after its one publish
C19_Witness ==
    /\ ErrorBatchInHand /\ pc = "failed"
    /\ Cardinality(At(cur.id, PublishOps)) = 1
    /\ Cardinality(At(cur.id, WriteOps)) = 1

\* the batches the engine has taken from the queue
Taken == 1 .. (submitted - Len(data_rx))

\* the batches that reached the detector, by kind
Checked(kind) == {log[i].id : i \in {j \in DOMAIN log : log[j].op = "detect"
                                                       /\ log[j].kind = kind}}

\* C20: at most one alert is published per processed batch: every batch has
\* at most one publish, it is of its own detection class (a trace rule for
\* Traces, a metric rule for Metrics, none for Logs) and follows a detector
\* call that returned that alert, and the alerts sent to the fan-out are
\* exactly the publishes, never more than the Traces and Metrics batches
\* processed.
C20_OneAlertPerBatch ==
    /\ \A id \in Taken : Cardinality(At(id, PublishOps)) <= 1
    /\ \A i \in DOMAIN log : log[i].op \in PublishOps =>
         /\ log[i].id \in Taken
         /\ log[i].kind \in {"Traces", "Metrics"}
         /\ log[i].kind = "Traces"
              => log[i].alert \in {"High Error Rate", "High Latency"}
         /\ log[i].kind = "Metrics"
              => log[i].alert \notin {"High Error Rate", "High Latency", "None"}
         /\ \E j \in At(log[i].id, {"detect"}) :
              j < i /\ log[j].alert = log[i].alert
    /\ Len(alert_tx) = Cardinality({i \in DOMAIN log : log[i].op = "publish"})
    /\ Len(alert_tx) <= Cardinality(Checked("Traces") \cup Checked("Metrics"))

\* C20 witness: three batches were processed, two of them published one
\* alert each and one published none
C20_Witness ==
    /\ Len(alert_tx) = 2
    /\ Cardinality(Checked("Traces") \cup Checked("Metrics")) = 3
    /\ pc = "recv" /\ data_rx = <<>>

TraceIds == {"t1", "t2"}

\* the spans of trace tid in a batch, in the batch's order
OfTrace(spans, tid) == SelectSeq(spans, LAMBDA sp : sp.trace_id = tid)

RECURSIVE ArrivalsUpTo(_, _)
\* the spans of trace tid handed to the first k process calls, in arrival order
ArrivalsUpTo(tid, k) ==
    IF k = 0 THEN <<>>
    ELSE ArrivalsUpTo(tid, k - 1) \o OfTrace(log[k].items, tid)

RECURSIVE WindowUpTo(_, _, _)
\* the spans of trace tid after the first k process calls when every call
\* ends with a sweep that drops the trace unless one of its spans has
\* end_time > (clock - WindowMillis) * unit
WindowUpTo(tid, k, unit) ==
    IF k = 0 THEN <<>>
    ELSE LET a == WindowUpTo(tid, k - 1, unit) \o OfTrace(log[k].items, tid)
         IN  IF \E i \in DOMAIN a :
                  a[i].end_time > (log[k].clock - WindowMillis) * unit
               THEN a ELSE <<>>

\* C21 (as stated): get_trace(id) returns all spans of that trace id appended
\* so far, in arrival order, and not found when there are none.
C21_AllSpansInOrder ==
    \A tid \in TraceIds : get_trace(traces, tid) = ArrivalsUpTo(tid, Len(log))

\* C21 (amended): get_trace(id) returns, in arrival order across and within
\* batches, the spans of that trace id appended since the entry was last
\* swept away (a process call sweeps an entry that has no span with
\* end_time > now_ms - window_ms, that call's own spans included), and not
\* found when there are none.
C21_SpansSinceSweepInOrder ==
    \A tid \in TraceIds : get_trace(traces, tid) = WindowUpTo(tid, Len(log), 1)

\* C21 witness: two calls brought SpanA1 and then SpanB1 of trace t1, both
\* still stored in that order, and trace t2 is not found
C21_Witness ==
    /\ Len(log) = 2
    /\ log[1].items = <<SpanA1>> /\ log[2].items = <<SpanB1>>
    /\ get_trace(traces, "t1") = <<SpanA1, SpanB1>>
    /\ get_trace(traces, "t2") = <<>>

\* C22 (as stated): right after a process call, a trace that got no span in
\* that call and whose every span ended more than the window before the
\* current time is not found.
C22_ExpiredTraceNotFound ==
    \A tid \in TraceIds :
      (/\ log # <<>>
       /\ OfTrace(log[Len(log)].items, tid) = <<>>
       /\ \A i \in DOMAIN ArrivalsUpTo(tid, Len(log)) :
            now * NanosPerMilli - ArrivalsUpTo(tid, Len(log))[i].end_time
              > WindowMillis * NanosPerMilli)
        => get_trace(traces, tid) = <<>>

\* C23 (as stated): after every process call the store holds exactly the
\* traces that have a span with end_time > cutoff, cutoff = now - window
\* taken in the unit of the span times (nanoseconds), each with all its
\* spans in order.
C23_SweepInSpanUnits ==
    \A tid \in TraceIds :
      get_trace(traces, tid) = WindowUpTo(tid, Len(log), NanosPerMilli)

RECURSIVE ProcessedUpTo(_)
\* the spans handed to the first k completed process calls, in order
ProcessedUpTo(k) ==
    IF k = 0 THEN <<>>
    ELSE ProcessedUpTo(k - 1)
           \o (IF log[k].op = "process" THEN log[k].items ELSE <<>>)

Processed == ProcessedUpTo(Len(log))

\* C24 (as stated): no step decreases a ServiceNode's span count, error count
\* or cumulative latency or an Edge's request count or error count, and no
\* node or edge is removed.
C24_CountersMonotone ==
    [][/\ \A n \in DOMAIN services :
            /\ n \in DOMAIN services'
            /\ services'[n].span_count >= services[n].span_count
            /\ services'[n].error_count >= services[n].error_count
            /\ services'[n].total_latency_ns >= services[n].total_latency_ns
       /\ \A k \in DOMAIN edges :
            /\ k \in DOMAIN edges'
            /\ edges'[k].request_count >= edges[k].request_count
            /\ edges'[k].error_count >= edges[k].error_count]_vars

\* the counters of a topology <<services, edges>>, without the names stored
\* at insertion
Counters(topo) ==
    << [n \in DOMAIN topo[1] |->
          <<topo[1][n].span_count, topo[1][n].error_count,
            topo[1][n].total_latency_ns>>],
       [k \in DOMAIN topo[2] |->
          <<topo[2][k].request_count, topo[2][k].error_count>>] >>

NoTopology == <<EmptyMap, EmptyMap>>

\* C25: the counters of every service and edge are those of the same spans
\* processed in any other order and under any other split into batches.
C25_CountsCommute ==
    pc # "panicked" =>
      LET all == Processed
          n   == Len(all)
      IN  \A f \in Permutations(1 .. n) : \A cut \in 0 .. n :
            LET other == [i \in 1 .. n |-> all[f[i]]]
                first == SubSeq(other, 1, cut)
                rest  == SubSeq(other, cut + 1, n)
            IN  Counters(TopologyDiscovery_process(
                           TopologyDiscovery_process(NoTopology, first), rest))
                  = Counters(<<services, edges>>)

\* C25 witness: two calls brought SpanErr and then SpanLong and SpanOk, spans
\* of one service with different latencies and statuses
C25_Witness ==
    /\ pc = "recv" /\ Len(log) = 2
    /\ log[1].items = <<SpanErr>> /\ log[2].items = <<SpanLong, SpanOk>>
    /\ services["a"].span_count = 3

\* the processed spans of service n, and those carrying peer.service for the
\* pair (n, p)
OfService(n) == SelectSeq(Processed, LAMBDA sp : sp.service_name = n)
OfPair(n, p) == SelectSeq(Processed, LAMBDA sp : sp.service_name = n /\ sp.peer = p)

Pairs == {<<Processed[i].service_name, Processed[i].peer>> :
            i \in {j \in DOMAIN Processed : Processed[j].peer # NoPeer}}

\* C26 (as stated): every ServiceNode holds the number of spans processed for
\* its service, the number of those in error and the sum of their
\* end_time - start_time; every Edge holds the number of spans processed for
\* its (service, peer) pair and the number of those in error; there is a
\* node per service seen and an edge per pair seen, and no other.
C26_CountersExact ==
    pc # "panicked" =>
      /\ DOMAIN services = {Processed[i].service_name : i \in DOMAIN Processed}
      /\ \A n \in DOMAIN services :
           /\ services[n].span_count = Len(OfService(n))
           /\ services[n].error_count = ErrorCount(OfService(n))
           /\ services[n].total_latency_ns =
                SumSeq([i \in DOMAIN OfService(n) |->
                          OfService(n)[i].end_time - OfService(n)[i].start_time])
      /\ Cardinality(DOMAIN edges) = Cardinality(Pairs)
      /\ \A pr \in Pairs :
           LET k == pr[1] \o ":" \o pr[2]
           IN  /\ k \in DOMAIN edges
               /\ edges[k].request_count = Len(OfPair(pr[1], pr[2]))
               /\ edges[k].error_count = ErrorCount(OfPair(pr[1], pr[2]))

\* C30 (as stated): an Edge entry belongs to one (service, peer) pair: its
\* stored source and target are those of every span that incremented it,
\* and spans of different pairs have different entries.
C30_EdgeKeyIsPair ==
    /\ \A i \in DOMAIN Processed :
         Processed[i].peer # NoPeer =>
           /\ edge_key(Processed[i]) \in DOMAIN edges
           /\ edges[edge_key(Processed[i])].source = Processed[i].service_name
           /\ edges[edge_key(Processed[i])].target = Processed[i].peer
    /\ Cardinality(DOMAIN edges) = Cardinality(Pairs)

StoreOps == {"correlate", "topology"}

\* all the effects batch id is due have been applied
AllApplied(id) ==
    /\ At(id, {"write"}) # {}
    /\ AlertDue(id) => At(id, {"publish"}) # {}

\* no effect of batch id has been applied
NoneApplied(id) == At(id, StoreOps \cup {"publish", "write"}) = {}

\* C27 (as stated): batches are processed one after the other, their effects
\* never interleave, and when the loop has moved on from a batch, normally
\* or after an error, either all of its effects have been applied or none.
C27_BatchAtomic ==
    /\ \A i, j \in DOMAIN log : i < j => log[i].id <= log[j].id
    /\ \A id \in Taken : DoneWith(id) => (AllApplied(id) \/ NoneApplied(id))

\* C28: only a Traces batch changes the trace window and the topology graph;
\* Metrics and Logs batches leave both as they are, never reach the
\* correlator or the topology discovery, and a Logs batch never reaches the
\* detector or publishes an alert.
C28_RoutingFrame ==
    /\ [][(traces' # traces \/ services' # services \/ edges' # edges)
            => (cur.kind = "Traces" /\ cur' = cur)]_vars
    /\ [](/\ pc \in StoreOps => cur.kind = "Traces"
          /\ cur.kind = "Logs" => pc \in {"write", "failed"}
          /\ \A i \in DOMAIN log :
               /\ log[i].op \in StoreOps => log[i].kind = "Traces"
               /\ log[i].kind = "Logs" => log[i].op \in WriteOps)

\* C28 witness: after a Traces batch filled both stores, a Metrics batch and
\* a Logs batch were processed to their storage write
C28_Witness ==
    /\ traces # EmptyMap /\ services # EmptyMap
    /\ \E i, j, k \in DOMAIN log :
         /\ i < j /\ j < k
         /\ log[i].kind = "Traces" /\ log[i].op = "topology"
         /\ log[j].kind = "Metrics" /\ log[j].op = "write"
         /\ log[k].kind = "Logs" /\ log[k].op = "write"

\* C29: no step of the engine adds, removes or changes a baseline: the
\* baseline store is in every state the empty one AnomalyDetector::new
\* created.
C29_BaselinesNeverChange ==
    /\ [](baseline_metrics = EmptyMap)
    /\ [][baseline_metrics' = baseline_metrics]_vars

\* C29 witness: the detector has checked a non-empty Metrics batch and a
\* Traces batch
C29_Witness ==
    /\ baseline_metrics = EmptyMap
    /\ \E i, j \in DOMAIN log :
         /\ log[i].op = "detect" /\ log[i].kind = "Metrics"
         /\ log[j].op = "detect" /\ log[j].kind = "Traces"
    /\ \E id \in 1 .. submitted : At(id, {"detect"}) # {} /\ cur.id = id
                                   /\ cur.kind = "Metrics" /\ cur.items # <<>>

\* C31: the sweep of a process call covers the spans the call appended: with
\* cutoff = now_ms - window_ms read in that call, a trace none of whose
\* spans, old or just appended, has end_time > cutoff is not found after
\* the call, and a trace with such a span is found with all its spans, old
\* ones first.
C31_SweepCoversAppended ==
    [][log' # log =>
         \A tid \in TraceIds :
           LET entry  == get_trace(traces, tid) \o OfTrace(log'[Len(log')].items, tid)
               cutoff == now' - WindowMillis
           IN  IF \E i \in DOMAIN entry : entry[i].end_time > cutoff
                 THEN get_trace(traces', tid) = entry
                 ELSE get_trace(traces', tid) = <<>>]_vars

\* C31 witness: SpanA1 was appended at clock 4, behind the cutoff, and swept
\* in the same call; appended again together with the fresher SpanB1 it is
\* kept
C31_Witness ==
    /\ Len(log) = 2
    /\ log[1].items = <<SpanA1>> /\ log[1].clock = 4
    /\ log[2].items = <<SpanA1, SpanB1>> /\ log[2].clock = 4
    /\ get_trace(traces, "t1") = <<SpanA1, SpanB1>>

\* the first operator of the chain that does not pass batch d on, the
\* length of the chain if every operator passes it
FirstStop(ops, d) ==
    LET stops == {i \in DOMAIN ops : Operator_process(ops[i], d).result # "Some"}
    IN  IF stops = {} THEN Len(ops)
        ELSE CHOOSE i \in stops : \A j \in stops : i <= j

\* C32: OperatorChain::process invokes its operators in the order they were
\* added, up to and including the first that returns None or Err, and no
\* later one: the later operators keep their state; the result is that
\* operator's None or Err, or the input handed through when every operator
\* (or none, for the empty chain) passed it.
C32_ChainShortCircuits ==
    [][chain_out' # chain_out =>
         LET d == chain_out'.input
             k == FirstStop(operators, d)
         IN  /\ chain_out'.invoked = [i \in 1 .. k |-> i]
             /\ Len(operators') = Len(operators)
             /\ \A i \in DOMAIN operators :
                  operators'[i] = IF i <= k THEN Operator_process(operators[i], d).op
                                            ELSE operators[i]
             /\ chain_out'.result =
                  IF k = 0 THEN "Some" ELSE Operator_process(operators[k], d).result
             /\ chain_out'.result = "Some" => chain_out'.data = d]_vars

\* C32 witness: a filter dropped a Traces batch in front of a sampler and an
\* aggregation, which were not invoked and whose state did not advance
C32_Witness ==
    /\ Len(operators) = 3
    /\ operators[1].kind = "filter"
    /\ operators[2] = MkSample(1, 2)
    /\ operators[3] = MkAggregate
    /\ chain_out.input.kind = "Traces"
    /\ chain_out.result = "None"
    /\ chain_out.invoked = <<1>>

====
